---- MODULE Spec2Model ----
(***************************************************************************)
(* State-machine model of IfrtComputationClient                            *)
(* (torch_xla/csrc/runtime/ifrt_computation_client.cc).                    *)
(*                                                                         *)
(* A device is identified by its driver id (xla::PjRtDevice::id()).        *)
(* Strings are sequences of one-character strings, so that formatting and  *)
(* upper-casing are computed and not assumed.                              *)
(* A fatal check (XLA_CHECK*, XLA_ERROR, .value() on an error) leaves the  *)
(* state as it was at the point of the check and is recorded in            *)
(* call.outcome = "fatal"; the caller may go on calling the client (the    *)
(* check raises), which covers the case where the process ends there.      *)
(***************************************************************************)
EXTENDS Integers, Sequences, FiniteSets, TLC

VARIABLES
    pc,                 \* "new" | "live" | "dtor" | "done" | "crashed"
    driver,             \* what the driver reports: [platform, devices (ids, driver order)]
    client_,            \* "none" | "live" | "null"
    global_ordinals_,   \* driver id -> global ordinal
    string_to_device_,  \* device string -> driver id (NullDevice for a null pointer)
    tracked,            \* OperationManager: device string -> registered operations in flight
    coordinator_,       \* NullCoordinator or the XlaCoordinator
    handles,            \* the IfrtData objects the caller holds (sequence)
    nextArray,          \* identity of the next xla::ifrt::Array created
    pending,            \* asynchronous device operations issued and not yet complete
    compileCount,       \* StableHloCompileCounter
    executeCount,       \* samples of ExecuteReplicatedMetric
    ncalls,             \* number of client calls made so far
    call                \* the last call: [op, args, outcome, ret]

vars == <<pc, driver, client_, global_ordinals_, string_to_device_, tracked,
          coordinator_, handles, nextArray, pending, compileCount,
          executeCount, ncalls, call>>

(***************************************************************************)
(* Bounds of the model.                                                    *)
(***************************************************************************)
MaxDevices == 2      \* devices the driver reports: 1..MaxDevices
MaxId      == 2      \* driver ids are drawn from 0..MaxId (sparse when > N-1)
MaxCalls   == 3      \* client calls per behaviour
MaxDataCalls == 2    \* client calls per behaviour of SpecReadback
MaxHandles == 3      \* IfrtData objects held by the caller
MaxTensors == 2      \* tensors / handles / shards passed to one call
MaxOutputs == 2      \* outputs of one execution
WorldSize  == 2      \* world size passed to InitializeCoordinator

(***************************************************************************)
(* Strings.                                                                *)
(***************************************************************************)
Lower == <<"a","b","c","d","e","f","g","h","i","j","k","l","m",
           "n","o","p","q","r","s","t","u","v","w","x","y","z">>
UpperCase == <<"A","B","C","D","E","F","G","H","I","J","K","L","M",
           "N","O","P","Q","R","S","T","U","V","W","X","Y","Z">>
Digits == <<"0","1","2","3","4","5","6","7","8","9">>

\* absl::AsciiToUpper on one character
AsciiToUpper(c) ==
    IF \E i \in 1..Len(Lower) : Lower[i] = c
    THEN UpperCase[CHOOSE i \in 1..Len(Lower) : Lower[i] = c]
    ELSE c

\* absl::AsciiStrToUpper
AsciiStrToUpper(s) == [i \in 1..Len(s) |-> AsciiToUpper(s[i])]

\* "%d" of a non-negative int
RECURSIVE FormatInt(_)
FormatInt(n) ==
    IF n < 10 THEN <<Digits[n + 1]>>
    ELSE FormatInt(n \div 10) \o <<Digits[(n % 10) + 1]>>

\* absl::StrFormat("%s:%d", platform, ordinal)
StrFormat(platform, ordinal) == platform \o <<":">> \o FormatInt(ordinal)

spmd_device_str == <<"S","P","M","D",":","0">>

NullDevice == -1
NullCoordinator == [global_rank |-> -1, world_size |-> 0]
NoCall == [op |-> "none", args |-> <<>>, outcome |-> "ok", ret |-> <<>>]

\* Platform names the driver may report (device->client()->platform_name()).
Platforms == {<<"t","p","u">>}

\* Orders in which the driver may report N devices with distinct ids.
RECURSIVE Perms(_)
Perms(S) ==
    IF S = {} THEN {<<>>}
    ELSE UNION {{<<x>> \o p : p \in Perms(S \ {x})} : x \in S}

DriverReports ==
    UNION {Perms(S) : S \in {T \in SUBSET (0..MaxId) :
                                 Cardinality(T) \in 1..MaxDevices}}

\* The reports the data-path specifications start from: one device, and two
\* devices with sparse ids reported out of id order.
SmallReports == {<<3>>, <<5, 2>>}

Range(s) == {s[i] : i \in 1..Len(s)}

(***************************************************************************)
(* Device registry.                                                        *)
(***************************************************************************)
\* std::map::at / operator[] on a TLA+ function used as a map
Has(m, k) == k \in DOMAIN m
Put(m, k, v) == [x \in (DOMAIN m) \cup {k} |-> IF x = k THEN v ELSE m[x]]
EmptyMap == [x \in {} |-> 0]

\* PjRtDeviceToString: [outcome, ret]; global_ordinals_.at() raises on a miss
PjRtDeviceToStringDropOrdinal(ords, platform, device) ==
    IF ~Has(ords, device) THEN [outcome |-> "fatal", ret |-> <<>>]
    ELSE [outcome |-> "ok", ret |-> StrFormat(AsciiStrToUpper(platform), 0)]

PjRtDeviceToString(ords, platform, device) ==
    IF ~Has(ords, device) THEN [outcome |-> "fatal", ret |-> <<>>]
    ELSE [outcome |-> "ok",
          ret |-> StrFormat(AsciiStrToUpper(platform), ords[device])]

\* PjRtDevicesToString
PjRtDevicesToString(ords, platform, devices) ==
    [i \in 1..Len(devices) |-> PjRtDeviceToString(ords, platform, devices[i]).ret]

\* the comparator of the constructor's partial_sort_copy
IdLess(a, b) == a < b

\* std::partial_sort_copy over the whole range: insertion into a sorted copy
RECURSIVE InsertSorted(_, _)
InsertSorted(sorted, d) ==
    IF sorted = <<>> THEN <<d>>
    ELSE IF IdLess(d, Head(sorted)) THEN <<d>> \o sorted
    ELSE <<Head(sorted)>> \o InsertSorted(Tail(sorted), d)

RECURSIVE PartialSortCopy(_)
PartialSortCopy(devices) ==
    IF devices = <<>> THEN <<>>
    ELSE InsertSorted(PartialSortCopy(Tail(devices)), Head(devices))

\* global_ordinals_[device->id()] = global_ordinals_.size();
\* (C++17: the right operand is evaluated before operator[] inserts)
AssignOrdinalAfterInsert(ords, device) ==
    Put(ords, device, Cardinality(DOMAIN Put(ords, device, 0)))

AssignOrdinal(ords, device) == Put(ords, device, Cardinality(DOMAIN ords))

\* std::unordered_map::emplace: no effect when the key is present
Emplace(m, k, v) == IF Has(m, k) THEN m ELSE Put(m, k, v)

\* the constructor's loop over ordered_devices
RECURSIVE BuildRegistry(_, _, _, _)
BuildRegistry(ordered, platform, ords, table) ==
    IF ordered = <<>> THEN [ords |-> ords, table |-> table]
    ELSE LET o2 == AssignOrdinal(ords, Head(ordered))
             str == PjRtDeviceToString(o2, platform, Head(ordered)).ret
         IN BuildRegistry(Tail(ordered), platform, o2,
                          Emplace(table, str, Head(ordered)))

\* client_->addressable_devices(): one process, every device addressable
AddressableDevices == driver.devices

GetLocalDevices ==
    PjRtDevicesToString(global_ordinals_, driver.platform, AddressableDevices)

GetDefaultDevice ==
    PjRtDeviceToString(global_ordinals_, driver.platform,
                       AddressableDevices[1]).ret

\* StringToPjRtDevice: [outcome, ret, table]
StringToPjRtDeviceNoCheck(table, s) ==
    IF Has(table, s) THEN [outcome |-> "ok", ret |-> table[s], table |-> table]
    ELSE [outcome |-> "ok", ret |-> NullDevice,
          table |-> Put(table, s, NullDevice)]

StringToPjRtDevice(table, s) ==
    IF ~Has(table, s)
    THEN [outcome |-> "fatal", ret |-> NullDevice, table |-> table]
    ELSE [outcome |-> "ok", ret |-> table[s], table |-> table]

\* Device strings a caller may pass: the registered ones, the SPMD label,
\* a string with a registered platform in the driver's own case and a
\* string with an ordinal past the last one.
DeviceStrings ==
    Range(GetLocalDevices) \cup
    {spmd_device_str, StrFormat(driver.platform, 0),
     StrFormat(AsciiStrToUpper(driver.platform), Len(driver.devices))}

(***************************************************************************)
(* Frame helpers.                                                          *)
(***************************************************************************)
Called(op, args, outcome, ret) ==
    /\ ncalls' = ncalls + 1
    /\ call' = [op |-> op, args |-> args, outcome |-> outcome, ret |-> ret]

Live == pc = "live" /\ ncalls < MaxCalls

RegistryVars == <<driver, global_ordinals_, string_to_device_, tracked>>
DataVars == <<handles, nextArray, pending, compileCount, executeCount>>

(***************************************************************************)
(* Construction and destruction.                                           *)
(***************************************************************************)
InitWith(reports) ==
    /\ pc = "new"
    /\ driver \in [platform : Platforms, devices : reports]
    /\ client_ = "none"
    /\ global_ordinals_ = EmptyMap
    /\ string_to_device_ = EmptyMap
    /\ tracked = EmptyMap
    /\ coordinator_ = NullCoordinator
    /\ handles = <<>>
    /\ nextArray = 1
    /\ pending = {}
    /\ compileCount = 0
    /\ executeCount = 0
    /\ ncalls = 0
    /\ call = NoCall

\* IfrtComputationClient::IfrtComputationClient
Constructor ==
    /\ pc = "new"
    /\ LET ordered_devices == PartialSortCopy(driver.devices)
           reg == BuildRegistry(ordered_devices, driver.platform,
                                EmptyMap, EmptyMap)
           tracked_devices ==
               Append(PjRtDevicesToString(reg.ords, driver.platform,
                                          AddressableDevices),
                      spmd_device_str)
       IN /\ global_ordinals_' = reg.ords
          /\ string_to_device_' = reg.table
          /\ tracked' = [s \in Range(tracked_devices) |-> 0]
    /\ client_' = "live"
    /\ pc' = "live"
    /\ UNCHANGED <<driver, coordinator_, ncalls, call>>
    /\ UNCHANGED DataVars

\* the order in which ~IfrtComputationClient resets its members
DestructorOrderCoordinatorFirst == <<"coordinator_", "client_">>

DestructorOrder == <<"client_", "coordinator_">>

\* ~IfrtComputationClient, one member reset per step
Destructor ==
    /\ pc \in {"live", "dtor"}
    /\ LET member == IF pc = "live" THEN DestructorOrder[1]
                     ELSE DestructorOrder[2]
       IN /\ client_' = IF member = "client_" THEN "null" ELSE client_
          /\ coordinator_' = IF member = "coordinator_" THEN NullCoordinator
                             ELSE coordinator_
    /\ pc' = IF pc = "live" THEN "dtor" ELSE "done"
    /\ UNCHANGED <<ncalls, call>>
    /\ UNCHANGED RegistryVars
    /\ UNCHANGED DataVars

(***************************************************************************)
(* Distributed coordinator.                                                *)
(***************************************************************************)
\* InitializeCoordinator: [outcome, coordinator]
InitializeCoordinatorNoCheck(coord, global_rank, world_size) ==
    [outcome |-> "ok",
     coordinator |-> [global_rank |-> global_rank, world_size |-> world_size]]

InitializeCoordinatorOp(coord, global_rank, world_size) ==
    IF coord # NullCoordinator
    THEN [outcome |-> "fatal", coordinator |-> coord]
    ELSE [outcome |-> "ok",
          coordinator |-> [global_rank |-> global_rank,
                           world_size |-> world_size]]

InitializeCoordinator ==
    /\ Live
    /\ \E global_rank \in 0..(WorldSize - 1) :
         LET r == InitializeCoordinatorOp(coordinator_, global_rank, WorldSize)
         IN /\ coordinator_' = r.coordinator
            /\ Called("InitializeCoordinator", <<global_rank, WorldSize>>,
                      r.outcome, <<>>)
    /\ UNCHANGED <<pc, client_>>
    /\ UNCHANGED RegistryVars
    /\ UNCHANGED DataVars

\* GetCoordinator: [outcome, ret]
GetCoordinatorNoCheck(coord) == [outcome |-> "ok", ret |-> <<coord>>]

GetCoordinatorOp(coord) ==
    IF coord = NullCoordinator THEN [outcome |-> "fatal", ret |-> <<>>]
    ELSE [outcome |-> "ok", ret |-> <<coord>>]

GetCoordinator ==
    /\ Live
    /\ LET r == GetCoordinatorOp(coordinator_)
       IN Called("GetCoordinator", <<>>, r.outcome, r.ret)
    /\ UNCHANGED <<pc, client_, coordinator_>>
    /\ UNCHANGED RegistryVars
    /\ UNCHANGED DataVars

CoordinatorInitializedOp(coord) == coord # NullCoordinator

CoordinatorInitialized ==
    /\ Live
    /\ Called("CoordinatorInitialized", <<>>, "ok",
              <<CoordinatorInitializedOp(coordinator_)>>)
    /\ UNCHANGED <<pc, client_, coordinator_>>
    /\ UNCHANGED RegistryVars
    /\ UNCHANGED DataVars

(***************************************************************************)
(* Registry lookups as client calls.                                       *)
(***************************************************************************)
StringToPjRtDeviceCall ==
    /\ Live
    /\ \E s \in DeviceStrings :
         LET r == StringToPjRtDevice(string_to_device_, s)
         IN /\ string_to_device_' = r.table
            /\ Called("StringToPjRtDevice", <<s>>, r.outcome, <<r.ret>>)
    /\ UNCHANGED <<pc, client_, coordinator_, driver, global_ordinals_, tracked>>
    /\ UNCHANGED DataVars

PjRtDeviceToStringCall ==
    /\ Live
    /\ \E d \in Range(driver.devices) :
         LET r == PjRtDeviceToString(global_ordinals_, driver.platform, d)
         IN Called("PjRtDeviceToString", <<d>>, r.outcome, <<r.ret>>)
    /\ UNCHANGED <<pc, client_, coordinator_>>
    /\ UNCHANGED RegistryVars
    /\ UNCHANGED DataVars

(***************************************************************************)
(* Data handles (IfrtData) and physical arrays (xla::ifrt::Array).         *)
(* An array is [id, devs, shape]: its identity, its device list and its    *)
(* shape. A sharding descriptor (xla::OpSharding) is kept by its type and  *)
(* the set of global ordinals it spans.                                    *)
(***************************************************************************)
NullBuffer == [id |-> 0, devs |-> <<>>, shape |-> "none"]
NoSharding == [present |-> FALSE, type |-> "none", devices |-> {}]
OpSharding(type, ordinals) ==
    [present |-> TRUE, type |-> type, devices |-> ordinals]

Shapes == {"f32[4]", "f32[8]"}
ShardShape == "f32[4]"
FullShape == "f32[8]"

\* Shardings a caller or an executable names: tiled over every device, or
\* replicated on every device.
AllOrdinals == 0..(Len(driver.devices) - 1)
Shardings == {OpSharding("OTHER", AllOrdinals),
              OpSharding("REPLICATED", AllOrdinals)}

\* Device labels a caller gives tensors and handles.
TensorDevices == Range(GetLocalDevices) \cup {spmd_device_str}

\* IfrtData::IfrtData(device, shape, buffer, sharding)
IfrtData(device, shape, buffer, sharding) ==
    [device |-> device, shape |-> shape, buffer |-> buffer,
     sharding |-> sharding]

HasSharding(data) == data.sharding.present

\* The data state a call works on.
DataState ==
    [table |-> string_to_device_, next |-> nextArray, pending |-> pending,
     compiles |-> compileCount, executes |-> executeCount]

Commit(st) ==
    /\ string_to_device_' = st.table
    /\ nextArray' = st.next
    /\ pending' = st.pending
    /\ compileCount' = st.compiles
    /\ executeCount' = st.executes

Operation(kind, arrays, devs) == [kind |-> kind, arrays |-> arrays, devs |-> devs]

\* Non-empty... sequences over S of length lo..hi
SeqsOf(S, lo, hi) == UNION {[1..n -> S] : n \in lo..hi}

\* IfrtData::Assign: the handle after the call
AssignWholeHandle(this, thisIdx, data, dataIdx) ==
    IF dataIdx # thisIdx
    THEN [this EXCEPT !.buffer = data.buffer, !.sharding = data.sharding]
    ELSE this

AssignOp(this, thisIdx, data, dataIdx) ==
    IF dataIdx # thisIdx THEN [this EXCEPT !.buffer = data.buffer] ELSE this

Assign ==
    /\ Live
    /\ \E h \in 1..Len(handles), s \in 1..Len(handles) :
         /\ handles' = [handles EXCEPT ![h] = AssignOp(handles[h], h, handles[s], s)]
         /\ Called("Assign", <<h, s>>, "ok", <<>>)
    /\ UNCHANGED <<pc, client_, coordinator_, nextArray, pending,
                   compileCount, executeCount>>
    /\ UNCHANGED RegistryVars

\* CreateDataPlaceholder
CreateDataPlaceholderOp(device, shape) ==
    IfrtData(device, shape, NullBuffer, NoSharding)

CreateDataPlaceholder ==
    /\ Live
    /\ Len(handles) < MaxHandles
    /\ \E device \in {GetDefaultDevice, spmd_device_str}, shape \in Shapes :
         /\ handles' = Append(handles, CreateDataPlaceholderOp(device, shape))
         /\ Called("CreateDataPlaceholder", <<device, shape>>, "ok",
                   <<Len(handles) + 1>>)
    /\ UNCHANGED <<pc, client_, coordinator_, nextArray, pending,
                   compileCount, executeCount>>
    /\ UNCHANGED RegistryVars

\* the loop of TransferToServer: [outcome, datas, st]
RECURSIVE TransferToServerOp(_, _, _)
TransferToServerOp(tensors, st, datas) ==
    IF tensors = <<>> THEN [outcome |-> "ok", datas |-> datas, st |-> st]
    ELSE LET tensor == Head(tensors)
             dev == StringToPjRtDevice(st.table, tensor.device)
             buffer == [id |-> st.next, devs |-> <<dev.ret>>,
                        shape |-> tensor.shape]
             data == IfrtData(tensor.device, tensor.shape, buffer, NoSharding)
         IN IF dev.outcome # "ok"
            THEN [outcome |-> "fatal", datas |-> <<>>,
                  st |-> [st EXCEPT !.table = dev.table]]
            ELSE TransferToServerOp(
                     Tail(tensors),
                     [st EXCEPT !.table = dev.table,
                                !.next = @ + 1,
                                !.pending = @ \cup
                                    {Operation("transfer", {st.next},
                                               {tensor.device})}],
                     Append(datas, data))

\* Host tensors passed to one call: tensor i goes to local device i (round
\* robin), and at most one of them names a device that is not registered.
TensorSources ==
    LET local == GetLocalDevices
        good(n) == [i \in 1..n |->
                      [device |-> local[((i - 1) % Len(local)) + 1],
                       shape |-> ShardShape]]
    IN UNION {{good(n)} \cup
              {[good(n) EXCEPT ![k].device = spmd_device_str] : k \in 1..n} :
              n \in 0..MaxTensors}

\* Handles passed to one call: strictly increasing index sequences.
HandleLists ==
    {idx \in SeqsOf(1..Len(handles), 0, MaxTensors) :
        \A i \in 1..(Len(idx) - 1) : idx[i] < idx[i + 1]}

TransferToServer ==
    /\ Live
    /\ \E tensors \in TensorSources :
         LET r == TransferToServerOp(tensors, DataState, <<>>)
         IN /\ Len(handles) + Len(tensors) <= MaxHandles
            /\ handles' = handles \o r.datas
            /\ Commit(r.st)
            /\ Called("TransferToServer", tensors, r.outcome,
                      [i \in 1..Len(r.datas) |-> Len(handles) + i])
    /\ UNCHANGED <<pc, client_, coordinator_, driver, global_ordinals_, tracked>>

\* client_->AssembleArrayFromSingleDeviceArrays(...).value() over
\* devices_list: an error (fatal through .value()) unless there is one
\* array per device
AssembleArray(arrays, devices_list, shape, id) ==
    IF Len(arrays) # Len(devices_list)
    THEN [outcome |-> "fatal", ret |-> NullBuffer]
    ELSE [outcome |-> "ok",
          ret |-> [id |-> id, devs |-> devices_list, shape |-> shape]]

\* TransferShardsToServer: [outcome, ret, st]
TransferShardsToServerUnchecked(tensor_shards, device, shape, sharding, st) ==
    LET t == TransferToServerOp(tensor_shards, st, <<>>)
        arrays == [i \in 1..Len(t.datas) |-> t.datas[i].buffer]
        a == AssembleArray(arrays, AddressableDevices, shape, t.st.next)
    IN IF t.outcome # "ok"
       THEN [outcome |-> t.outcome, ret |-> <<>>, st |-> t.st]
       ELSE [outcome |-> "ok",
             ret |-> <<IfrtData(device, shape, a.ret, sharding)>>,
             st |-> [t.st EXCEPT !.next = @ + 1]]

TransferShardsToServerOp(tensor_shards, device, shape, sharding, st) ==
    LET t == TransferToServerOp(tensor_shards, st, <<>>)
        arrays == [i \in 1..Len(t.datas) |-> t.datas[i].buffer]
        a == AssembleArray(arrays, AddressableDevices, shape, t.st.next)
    IN IF t.outcome # "ok"
       THEN [outcome |-> t.outcome, ret |-> <<>>, st |-> t.st]
       ELSE IF a.outcome # "ok"
       THEN [outcome |-> "fatal", ret |-> <<>>, st |-> t.st]
       ELSE [outcome |-> "ok",
             ret |-> <<IfrtData(device, shape, a.ret, sharding)>>,
             st |-> [t.st EXCEPT !.next = @ + 1]]

TransferShardsToServer ==
    /\ Live
    /\ Len(handles) < MaxHandles
    /\ \E tensor_shards \in TensorSources, device \in {spmd_device_str},
          sharding \in Shardings :
         LET shape == FullShape
             r == TransferShardsToServerOp(tensor_shards, device, shape,
                                           sharding, DataState)
         IN /\ handles' = handles \o r.ret
            /\ Commit(r.st)
            /\ Called("TransferShardsToServer",
                      <<tensor_shards, device, shape, sharding>>, r.outcome,
                      [i \in 1..Len(r.ret) |-> Len(handles) + i])
    /\ UNCHANGED <<pc, client_, coordinator_, driver, global_ordinals_, tracked>>

\* GetDataShards: [outcome, ret, st]; shards of a sharded handle are fresh
\* copies, one per device of the array, in the array's device order
GetDataShardsOp(data, st) ==
    IF HasSharding(data)
    THEN IF data.buffer = NullBuffer
         THEN [outcome |-> "crash", ret |-> <<>>, st |-> st]
         ELSE LET n == Len(data.buffer.devs)
                  array(i) == [id |-> st.next + i - 1,
                               devs |-> <<data.buffer.devs[i]>>,
                               shape |-> data.buffer.shape]
              IN [outcome |-> "ok",
                  ret |-> [i \in 1..n |->
                             IfrtData(PjRtDeviceToString(global_ordinals_,
                                          driver.platform,
                                          data.buffer.devs[i]).ret,
                                      data.buffer.shape, array(i), NoSharding)],
                  st |-> [st EXCEPT !.next = @ + n]]
    ELSE [outcome |-> "ok", ret |-> <<>>, st |-> st]

GetDataShards ==
    /\ Live
    /\ \E h \in 1..Len(handles) :
         LET r == GetDataShardsOp(handles[h], DataState)
         IN /\ Len(handles) + Len(r.ret) <= MaxHandles
            /\ handles' = handles \o r.ret
            /\ Commit(r.st)
            /\ pc' = IF r.outcome = "crash" THEN "crashed" ELSE pc
            /\ Called("GetDataShards", <<h>>, r.outcome,
                      IF HasSharding(handles[h])
                      THEN [i \in 1..Len(r.ret) |-> Len(handles) + i]
                      ELSE <<h>>)
    /\ UNCHANGED <<client_, coordinator_, driver, global_ordinals_, tracked>>

\* WrapDataShards: [outcome, ret, st]
WrapDataShardsNoPlaceholder(shards, device, shape, sharding, st) ==
    IF \E i \in 1..Len(shards) : shards[i].buffer = NullBuffer
    THEN [outcome |-> "crash", ret |-> <<>>, st |-> st]
    ELSE IF Len(shards) # Len(AddressableDevices)
    THEN [outcome |-> "fatal", ret |-> <<>>, st |-> st]
    ELSE LET arrays == [i \in 1..Len(shards) |-> shards[i].buffer]
             a == AssembleArray(arrays, AddressableDevices, shape, st.next)
         IN IF a.outcome # "ok"
            THEN [outcome |-> "fatal", ret |-> <<>>, st |-> st]
            ELSE [outcome |-> "ok",
                  ret |-> <<IfrtData(device, shape, a.ret, sharding)>>,
                  st |-> [st EXCEPT !.next = @ + 1]]

WrapDataShardsOp(shards, device, shape, sharding, st) ==
    IF Len(shards) = 0
    THEN [outcome |-> "ok",
          ret |-> <<IfrtData(device, shape, NullBuffer, sharding)>>, st |-> st]
    ELSE IF \E i \in 1..Len(shards) : shards[i].buffer = NullBuffer
    THEN [outcome |-> "crash", ret |-> <<>>, st |-> st]
    ELSE IF Len(shards) # Len(AddressableDevices)
    THEN [outcome |-> "fatal", ret |-> <<>>, st |-> st]
    ELSE LET arrays == [i \in 1..Len(shards) |-> shards[i].buffer]
             a == AssembleArray(arrays, AddressableDevices, shape, st.next)
         IN IF a.outcome # "ok"
            THEN [outcome |-> "fatal", ret |-> <<>>, st |-> st]
            ELSE [outcome |-> "ok",
                  ret |-> <<IfrtData(device, shape, a.ret, sharding)>>,
                  st |-> [st EXCEPT !.next = @ + 1]]

WrapDataShards ==
    /\ Live
    /\ Len(handles) < MaxHandles
    /\ \E idx \in HandleLists,
          device \in {spmd_device_str}, shape \in {FullShape},
          sharding \in Shardings :
         LET r == WrapDataShardsOp([i \in 1..Len(idx) |-> handles[idx[i]]],
                                   device, shape, sharding, DataState)
         IN /\ handles' = handles \o r.ret
            /\ Commit(r.st)
            /\ pc' = IF r.outcome = "crash" THEN "crashed" ELSE pc
            /\ Called("WrapDataShards", <<idx, device, shape, sharding>>,
                      r.outcome, [i \in 1..Len(r.ret) |-> Len(handles) + i])
    /\ UNCHANGED <<client_, coordinator_, driver, global_ordinals_, tracked>>

(***************************************************************************)
(* Compiler bridge.                                                        *)
(***************************************************************************)
\* xla::DeviceAssignment(rows, cols): every entry -1
DeviceAssignment(rows, cols) == [r \in 0..(rows - 1) |-> [c \in 0..(cols - 1) |-> -1]]

\* the loop over global_ordinals_ writing device_assignment(row, col)
SetAssignmentDriverOrder(da, sharded) ==
    [r \in DOMAIN da |-> [c \in DOMAIN da[r] |->
        LET o == IF sharded THEN c ELSE r
        IN IF o < Len(driver.devices) THEN driver.devices[o + 1]
           ELSE da[r][c]]]

SetAssignment(da, sharded) ==
    [r \in DOMAIN da |-> [c \in DOMAIN da[r] |->
        LET o == IF sharded THEN c ELSE r
        IN IF \E d \in DOMAIN global_ordinals_ : global_ordinals_[d] = o
           THEN CHOOSE d \in DOMAIN global_ordinals_ : global_ordinals_[d] = o
           ELSE da[r][c]]]

\* the compile options Compile builds for one instance
CompileOptions(instance) ==
    LET device_count == Len(driver.devices)
    IN IF instance.is_sharded
       THEN [use_spmd_partitioning |-> TRUE,
             num_partitions |-> device_count, num_replicas |-> 1,
             device_assignment |->
                 SetAssignment(DeviceAssignment(1, device_count), TRUE)]
       ELSE [use_spmd_partitioning |-> FALSE,
             num_partitions |-> 1, num_replicas |-> device_count,
             device_assignment |->
                 SetAssignment(DeviceAssignment(device_count, 1), FALSE)]

\* Compile: [outcome, ret, st]; the device compiler is taken to succeed
CompileOp(instances, st) ==
    [outcome |-> "ok",
     ret |-> [i \in 1..Len(instances) |-> CompileOptions(instances[i])],
     st |-> [st EXCEPT !.compiles = @ + Len(instances)]]

Compile ==
    /\ Live
    /\ \E flags \in SeqsOf(BOOLEAN, 0, 1) :
         LET instances == [i \in 1..Len(flags) |-> [is_sharded |-> flags[i]]]
             r == CompileOp(instances, DataState)
         IN /\ Commit(r.st)
            /\ Called("Compile", flags, r.outcome, r.ret)
    /\ UNCHANGED <<pc, client_, coordinator_, handles, driver,
                   global_ordinals_, tracked>>

(***************************************************************************)
(* Execution engine.                                                       *)
(***************************************************************************)
\* What a loaded executable does when run: the number of outputs, their
\* shape, and what GetOutputShardings() reports.
Executables ==
    [outputs : 0..MaxOutputs, shape : {FullShape},
     output_shardings :
        {[has_value |-> FALSE, value |-> <<>>]} \cup
        {[has_value |-> TRUE, value |-> v] :
            v \in SeqsOf(Shardings, 0, MaxOutputs)}]

\* ExecuteReplicated: [outcome, ret, st]
ExecuteReplicatedUnchecked(executable, arguments, st) ==
    LET n == executable.outputs
        results == [i \in 1..n |->
                      [id |-> st.next + i - 1,
                       devs |-> PartialSortCopy(driver.devices),
                       shape |-> executable.shape]]
        st2 == [st EXCEPT
                  !.next = @ + n,
                  !.executes = @ + 1,
                  !.pending = @ \cup
                      {Operation("execute", {results[i].id : i \in 1..n},
                                 Range(GetLocalDevices) \cup {spmd_device_str})}]
        output_shardings == executable.output_shardings
    IN [outcome |-> "ok",
        ret |-> [i \in 1..n |->
                   IfrtData(spmd_device_str, results[i].shape, results[i],
                            IF i <= Len(output_shardings.value)
                            THEN output_shardings.value[i]
                            ELSE NoSharding)],
        st |-> st2]

ExecuteReplicatedOp(executable, arguments, st) ==
    LET n == executable.outputs
        results == [i \in 1..n |->
                      [id |-> st.next + i - 1,
                       devs |-> PartialSortCopy(driver.devices),
                       shape |-> executable.shape]]
        st2 == [st EXCEPT
                  !.next = @ + n,
                  !.executes = @ + 1,
                  !.pending = @ \cup
                      {Operation("execute", {results[i].id : i \in 1..n},
                                 Range(GetLocalDevices) \cup {spmd_device_str})}]
        output_shardings == executable.output_shardings
    IN IF ~output_shardings.has_value
       THEN [outcome |-> "fatal", ret |-> <<>>, st |-> st2]
       ELSE IF Len(output_shardings.value) # n
       THEN [outcome |-> "fatal", ret |-> <<>>, st |-> st2]
       ELSE [outcome |-> "ok",
             ret |-> [i \in 1..n |->
                        IfrtData(spmd_device_str, results[i].shape, results[i],
                                 output_shardings.value[i])],
             st |-> st2]

ExecuteReplicated ==
    /\ Live
    /\ compileCount > 0
    /\ \E executable \in Executables,
          arguments \in {idx \in HandleLists : Len(idx) <= 1} :
         LET r == ExecuteReplicatedOp(executable,
                      [i \in 1..Len(arguments) |-> handles[arguments[i]]],
                      DataState)
         IN /\ Len(handles) + executable.outputs <= MaxHandles
            /\ handles' = handles \o r.ret
            /\ Commit(r.st)
            /\ Called("ExecuteReplicated", <<executable>>, r.outcome,
                      [i \in 1..Len(r.ret) |-> Len(handles) + i])
    /\ UNCHANGED <<pc, client_, coordinator_, driver, global_ordinals_, tracked>>

\* ExecuteComputation, CopyToDevice: XLA_ERROR() << "not implemented"
ExecuteComputationOp(arguments, device, st) ==
    [outcome |-> "fatal", ret |-> <<>>, st |-> st]

CopyToDeviceCopies(data, dst, st) ==
    [outcome |-> "ok",
     ret |-> <<IfrtData(dst, data.shape,
                        IF data.buffer = NullBuffer THEN NullBuffer
                        ELSE [data.buffer EXCEPT !.id = st.next],
                        data.sharding)>>,
     st |-> [st EXCEPT !.next = @ + 1]]

CopyToDeviceOp(data, dst, st) ==
    [outcome |-> "fatal", ret |-> <<>>, st |-> st]

ExecuteComputation ==
    /\ Live
    /\ compileCount > 0
    /\ \E arguments \in {idx \in HandleLists : Len(idx) <= 1},
          device \in TensorDevices :
         LET r == ExecuteComputationOp(
                      [i \in 1..Len(arguments) |-> handles[arguments[i]]],
                      device, DataState)
         IN /\ handles' = handles \o r.ret
            /\ Commit(r.st)
            /\ Called("ExecuteComputation", <<arguments, device>>, r.outcome,
                      [i \in 1..Len(r.ret) |-> Len(handles) + i])
    /\ UNCHANGED <<pc, client_, coordinator_, driver, global_ordinals_, tracked>>

CopyToDevice ==
    /\ Live
    /\ \E data \in 1..Len(handles), dst \in TensorDevices :
         LET r == CopyToDeviceOp(handles[data], dst, DataState)
         IN /\ handles' = handles \o r.ret
            /\ Commit(r.st)
            /\ Called("CopyToDevice", <<data, dst>>, r.outcome,
                      [i \in 1..Len(r.ret) |-> Len(handles) + i])
    /\ UNCHANGED <<pc, client_, coordinator_, driver, global_ordinals_, tracked>>

(***************************************************************************)
(* Replication and device-to-host transfer.                                *)
(***************************************************************************)
\* The executable of the identity computation ReplicateShardedData builds:
\* one output, reported as replicated over every device.
ReplicationExecutable(shape) ==
    [outputs |-> 1, shape |-> shape,
     output_shardings |->
        [has_value |-> TRUE,
         value |-> <<OpSharding("REPLICATED", AllOrdinals)>>]]

\* the part of ReplicateShardedData after the single-device test
ReplicateByExecution(handle, st) ==
    IF ~HasSharding(handle)
    THEN [outcome |-> "fatal", ret |-> NullBuffer, st |-> st]
    ELSE LET c == CompileOp(<<[is_sharded |-> TRUE]>>, st)
             e == ExecuteReplicatedOp(ReplicationExecutable(handle.shape),
                                      <<handle>>, c.st)
         IN IF Len(handle.buffer.devs) # Len(GetLocalDevices)
            THEN [outcome |-> "fatal", ret |-> NullBuffer, st |-> c.st]
            ELSE IF e.outcome # "ok"
            THEN [outcome |-> e.outcome, ret |-> NullBuffer, st |-> e.st]
            ELSE [outcome |-> "ok",
                  ret |-> [id |-> e.st.next,
                           devs |-> <<e.ret[1].buffer.devs[1]>>,
                           shape |-> e.ret[1].buffer.shape],
                  st |-> [e.st EXCEPT !.next = @ + 1]]

\* ReplicateShardedData: [outcome, ret, st]
ReplicateShardedDataNoFastPath(handle, st) ==
    IF handle.buffer = NullBuffer
    THEN [outcome |-> "crash", ret |-> NullBuffer, st |-> st]
    ELSE ReplicateByExecution(handle, st)

ReplicateShardedData(handle, st) ==
    IF handle.buffer = NullBuffer
    THEN [outcome |-> "crash", ret |-> NullBuffer, st |-> st]
    ELSE IF Len(handle.buffer.devs) = 1
    THEN [outcome |-> "ok", ret |-> handle.buffer, st |-> st]
    ELSE ReplicateByExecution(handle, st)

\* CopyToHostBuffer(...).Await() has returned for `array`: what produced
\* the array is complete
Awaited(ops, array) == {o \in ops : array.id \notin o.arrays}

\* the loop of TransferFromServer: [outcome, literals, replicated, st].
\* failAt = k: the copy future of the k-th handle resolves to an error
\* (0: none does); XLA_CHECK_OK on it is a fatal check.
RECURSIVE TransferFromServerSkipFailed(_, _, _, _, _)
TransferFromServerSkipFailed(hs, failAt, st, literals, replicated) ==
    IF hs = <<>>
    THEN [outcome |-> "ok", literals |-> literals,
          replicated |-> replicated, st |-> st]
    ELSE LET ifrt_data == Head(hs)
             r == ReplicateShardedData(ifrt_data, st)
             literal == [shape |-> ifrt_data.shape, from |-> r.ret.id]
         IN IF r.outcome # "ok"
            THEN [outcome |-> r.outcome, literals |-> <<>>,
                  replicated |-> replicated, st |-> r.st]
            ELSE TransferFromServerSkipFailed(
                     Tail(hs), failAt,
                     IF failAt = Len(literals) + 1 THEN r.st
                     ELSE [r.st EXCEPT !.pending = Awaited(@, r.ret)],
                     Append(literals, literal), Append(replicated, r.ret))

RECURSIVE TransferFromServerOp(_, _, _, _, _)
TransferFromServerOp(hs, failAt, st, literals, replicated) ==
    IF hs = <<>>
    THEN [outcome |-> "ok", literals |-> literals,
          replicated |-> replicated, st |-> st]
    ELSE LET ifrt_data == Head(hs)
             r == ReplicateShardedData(ifrt_data, st)
             literal == [shape |-> ifrt_data.shape, from |-> r.ret.id]
         IN IF r.outcome # "ok"
            THEN [outcome |-> r.outcome, literals |-> <<>>,
                  replicated |-> replicated, st |-> r.st]
            ELSE IF failAt = Len(literals) + 1
            THEN [outcome |-> "fatal", literals |-> <<>>,
                  replicated |-> Append(replicated, r.ret), st |-> r.st]
            ELSE TransferFromServerOp(
                     Tail(hs), failAt,
                     [r.st EXCEPT !.pending = Awaited(@, r.ret)],
                     Append(literals, literal), Append(replicated, r.ret))

TransferFromServer ==
    /\ Live
    /\ \E idx \in HandleLists :
       \E failAt \in 0..Len(idx) :
         LET r == TransferFromServerOp([i \in 1..Len(idx) |-> handles[idx[i]]],
                                       failAt, DataState, <<>>, <<>>)
         IN /\ Commit(r.st)
            /\ pc' = IF r.outcome = "crash" THEN "crashed" ELSE pc
            /\ Called("TransferFromServer", <<idx, failAt>>, r.outcome,
                      <<r.literals, r.replicated>>)
    /\ UNCHANGED <<client_, coordinator_, handles, driver, global_ordinals_,
                   tracked>>

(***************************************************************************)
(* Operation tracker.                                                      *)
(***************************************************************************)
\* OperationManager::WaitForDevices returns once no registered operation
\* of the named devices is outstanding
WaitForDevices(counts, devices) ==
    \A d \in devices : Has(counts, d) => counts[d] = 0

\* WaitDeviceOps
WaitDeviceOps ==
    /\ Live
    /\ \E devices \in {{}} \cup {{d} : d \in DOMAIN tracked} :
         LET waited == IF devices = {} THEN Range(GetLocalDevices) ELSE devices
         IN /\ WaitForDevices(tracked, waited)
            /\ Called("WaitDeviceOps", waited, "ok", <<>>)
    /\ UNCHANGED <<pc, client_, coordinator_>>
    /\ UNCHANGED RegistryVars
    /\ UNCHANGED DataVars

\* The device finishes an operation issued earlier.
CompleteOperation ==
    /\ pc = "live"
    /\ \E o \in pending : pending' = pending \ {o}
    /\ UNCHANGED <<pc, client_, coordinator_, handles, nextArray,
                   compileCount, executeCount, ncalls, call>>
    /\ UNCHANGED RegistryVars

Next ==
    \/ Constructor
    \/ Destructor
    \/ InitializeCoordinator
    \/ GetCoordinator
    \/ CoordinatorInitialized
    \/ StringToPjRtDeviceCall
    \/ PjRtDeviceToStringCall
    \/ CreateDataPlaceholder
    \/ Assign
    \/ TransferToServer
    \/ TransferShardsToServer
    \/ GetDataShards
    \/ WrapDataShards
    \/ Compile
    \/ ExecuteReplicated
    \/ ExecuteComputation
    \/ CopyToDevice
    \/ TransferFromServer
    \/ WaitDeviceOps
    \/ CompleteOperation

Init == InitWith(DriverReports)

Spec == Init /\ [][Next]_vars

(***************************************************************************)
(* Specifications of parts of the client. Each keeps the operations that   *)
(* read or write the state its properties are about.                       *)
(***************************************************************************)
\* Coordinator life cycle and destruction.
NextLifecycle ==
    \/ Constructor
    \/ Destructor
    \/ InitializeCoordinator
    \/ GetCoordinator
    \/ CoordinatorInitialized
    \/ CreateDataPlaceholder
    \/ Compile
    \/ ExecuteComputation
    \/ CopyToDevice
    \/ WaitDeviceOps

SpecLifecycle == InitWith(SmallReports) /\ [][NextLifecycle]_vars

\* Device registry.
NextRegistry ==
    \/ Constructor
    \/ StringToPjRtDeviceCall
    \/ PjRtDeviceToStringCall
    \/ CreateDataPlaceholder
    \/ Compile
    \/ WaitDeviceOps
    \/ Destructor

SpecRegistry == Init /\ [][NextRegistry]_vars

\* Operation tracker.
NextTracker ==
    \/ Constructor
    \/ TransferToServer
    \/ Compile
    \/ ExecuteReplicated
    \/ WaitDeviceOps
    \/ CompleteOperation

SpecTracker == InitWith(SmallReports) /\ [][NextTracker]_vars

\* Data handles.
NextHandles ==
    \/ Constructor
    \/ CreateDataPlaceholder
    \/ TransferToServer
    \/ TransferShardsToServer
    \/ WrapDataShards
    \/ GetDataShards
    \/ Compile
    \/ ExecuteReplicated
    \/ Assign

SpecHandles == InitWith(SmallReports) /\ [][NextHandles]_vars

\* Transfers, shard assembly and in-place assignment.
NextShards ==
    \/ Constructor
    \/ CreateDataPlaceholder
    \/ TransferToServer
    \/ TransferShardsToServer
    \/ WrapDataShards
    \/ GetDataShards
    \/ Assign

SpecShards == InitWith(SmallReports) /\ [][NextShards]_vars

\* Every operation of the client, over behaviours of at most MaxDataCalls
\* calls.
NextReadback == ncalls < MaxDataCalls /\ Next

SpecReadback ==
    InitWith(SmallReports) /\ [][Constructor \/ NextReadback]_vars

(***************************************************************************)
(* Properties.                                                             *)
(***************************************************************************)
\* A step that is a call of `op`.
IsCall(op) == ncalls' = ncalls + 1 /\ call'.op = op

\* C1: the first InitializeCoordinator succeeds and creates the coordinator
\* from its arguments; every later one aborts fatally and leaves that
\* coordinator in place; once initialized, the coordinator stays initialized
\* until the destructor runs.
C1_InitializeOnce ==
    [][/\ IsCall("InitializeCoordinator") =>
            IF coordinator_ = NullCoordinator
            THEN /\ call'.outcome = "ok"
                 /\ coordinator_' = [global_rank |-> call'.args[1],
                                     world_size |-> call'.args[2]]
            ELSE /\ call'.outcome = "fatal"
                 /\ coordinator_' = coordinator_
       /\ (CoordinatorInitializedOp(coordinator_) /\ pc' = "live") =>
            coordinator_' = coordinator_]_vars

C1_Witness ==
    /\ pc = "live"
    /\ call.op = "InitializeCoordinator"
    /\ call.outcome = "fatal"
    /\ coordinator_ # NullCoordinator
    /\ coordinator_.global_rank # call.args[1]

\* C2 as stated: during shutdown there is no state in which the device
\* client has been released while the coordinator still exists.
C2_CoordinatorBeforeClient ==
    ~(client_ = "null" /\ coordinator_ # NullCoordinator)

\* C2 as amended: the destructor releases the device client first; the
\* coordinator is torn down only in a step that starts with the device
\* client already released, and during shutdown the client is never held.
C2_ClientBeforeCoordinator ==
    [][/\ (coordinator_ # NullCoordinator /\ coordinator_' = NullCoordinator)
            => client_ = "null"
       /\ pc' \in {"dtor", "done"} => client_' = "null"]_vars

C2_Witness ==
    pc = "dtor" /\ client_ = "null" /\ coordinator_ # NullCoordinator

\* C3: WaitDeviceOps(devices) does not return while an operation issued
\* against one of the devices is still incomplete.
C3_WaitCoversIssued ==
    (call.op = "WaitDeviceOps" /\ call.outcome = "ok") =>
        \A o \in pending : o.devs \cap call.args = {}

\* C4: every handle either has no sharding and an array (if any) on a
\* single device, or has a sharding whose device set is that of its array.
ShardingConsistent(h) ==
    IF ~HasSharding(h) THEN Len(h.buffer.devs) <= 1
    ELSE \/ h.buffer = NullBuffer
         \/ h.sharding.devices =
                {global_ordinals_[d] : d \in Range(h.buffer.devs)}

C4_ShardingConsistent ==
    \A i \in 1..Len(handles) : ShardingConsistent(handles[i])

\* C5: after construction the ordinal of each enumerated device is its
\* 0-based rank among the driver ids, so the ordinals are exactly 0..N-1.
C5_OrdinalIsRank ==
    pc # "new" =>
        /\ DOMAIN global_ordinals_ = Range(driver.devices)
        /\ \A d \in Range(driver.devices) :
             global_ordinals_[d] =
                 Cardinality({e \in Range(driver.devices) : e < d})
        /\ {global_ordinals_[d] : d \in Range(driver.devices)} =
               0..(Len(driver.devices) - 1)

C5_Witness ==
    /\ pc = "live"
    /\ Len(driver.devices) = 2
    /\ driver.devices[1] > driver.devices[2]
    /\ driver.devices[1] > 1

\* C6: after construction no client operation changes the ordinal map or
\* the string table, and the two lookups are inverse to each other on the
\* enumerated devices and on the registered strings.
RegistryBijection ==
    /\ \A d \in Range(driver.devices) :
         LET str == PjRtDeviceToString(global_ordinals_, driver.platform, d)
             dev == StringToPjRtDevice(string_to_device_, str.ret)
         IN str.outcome = "ok" /\ dev.outcome = "ok" /\ dev.ret = d
    /\ \A s \in DOMAIN string_to_device_ :
         LET dev == StringToPjRtDevice(string_to_device_, s)
             str == PjRtDeviceToString(global_ordinals_, driver.platform,
                                       dev.ret)
         IN dev.outcome = "ok" /\ str.outcome = "ok" /\ str.ret = s

C6_RegistryStable ==
    /\ [](pc # "new" => RegistryBijection)
    /\ [][pc # "new" =>
            UNCHANGED <<global_ordinals_, string_to_device_>>]_vars

C6_Witness ==
    /\ pc = "live"
    /\ ncalls = MaxCalls
    /\ Len(driver.devices) = 2
    /\ Cardinality(DOMAIN string_to_device_) = 2
    /\ call.op = "StringToPjRtDevice"

\* C8: StringToPjRtDevice aborts fatally on a string that is not
\* registered and adds no entry; on a registered string it returns the
\* device registered under exactly that string.
C8_UnknownStringAborts ==
    [][IsCall("StringToPjRtDevice") =>
         LET s == call'.args[1]
         IN /\ string_to_device_' = string_to_device_
            /\ IF s \in DOMAIN string_to_device_
               THEN /\ call'.outcome = "ok"
                    /\ call'.ret = <<string_to_device_[s]>>
                    /\ PjRtDeviceToString(global_ordinals_, driver.platform,
                                          call'.ret[1]).ret = s
               ELSE call'.outcome = "fatal"]_vars

C8_Witness ==
    /\ call.op = "StringToPjRtDevice"
    /\ call.outcome = "fatal"
    /\ call.args[1] = StrFormat(driver.platform, 0)
    /\ call.args[1] \notin DOMAIN string_to_device_

\* C7: GetCoordinator aborts fatally and leaves the coordinator
\* uninitialized when it is not initialized; otherwise it returns the
\* coordinator in place.
C7_GetCoordinator ==
    [][IsCall("GetCoordinator") =>
         /\ coordinator_' = coordinator_
         /\ IF coordinator_ = NullCoordinator
            THEN call'.outcome = "fatal" /\ call'.ret = <<>>
            ELSE call'.outcome = "ok" /\ call'.ret = <<coordinator_>>]_vars

C7_Witness ==
    /\ call.op = "GetCoordinator"
    /\ call.outcome = "fatal"
    /\ coordinator_ = NullCoordinator

\* C9: ExecuteComputation and CopyToDevice always abort, return no handle
\* and change no handle, nor the registry, nor the coordinator.
C9_NotImplemented ==
    [][(IsCall("ExecuteComputation") \/ IsCall("CopyToDevice")) =>
         /\ call'.outcome = "fatal"
         /\ call'.ret = <<>>
         /\ UNCHANGED <<handles, global_ordinals_, string_to_device_,
                        tracked, coordinator_, pc>>]_vars

C9_Witness ==
    /\ call.op = "CopyToDevice"
    /\ call.outcome = "fatal"
    /\ handles[call.args[1]].buffer # NullBuffer

\* C10: TransferFromServer over handles whose arrays all span one device
\* compiles nothing and executes nothing, and the array replicated for
\* each handle is the handle's own array.
SingleDevice(h) == h.buffer # NullBuffer /\ Len(h.buffer.devs) = 1

C10_SingleDeviceNoCompile ==
    [][(/\ IsCall("TransferFromServer")
        /\ \A i \in 1..Len(call'.args[1]) :
              SingleDevice(handles[call'.args[1][i]])) =>
         LET idx == call'.args[1]
             failAt == call'.args[2]
             replicated == call'.ret[2]
         IN /\ compileCount' = compileCount
            /\ executeCount' = executeCount
            /\ call'.outcome = IF failAt = 0 THEN "ok" ELSE "fatal"
            /\ Len(replicated) = IF failAt = 0 THEN Len(idx) ELSE failAt
            /\ \A i \in 1..Len(replicated) :
                 replicated[i] = handles[idx[i]].buffer]_vars

C10_Witness ==
    /\ call.op = "TransferFromServer"
    /\ call.outcome = "ok"
    /\ Len(call.args[1]) > 0
    /\ \A i \in 1..Len(call.args[1]) : SingleDevice(handles[call.args[1][i]])
    /\ \E i \in 1..Len(call.args[1]) : HasSharding(handles[call.args[1][i]])

\* C11: WrapDataShards with an empty shard list succeeds on any number of
\* devices: it returns one new handle with the given device and shape, no
\* physical buffer and the given sharding (HasSharding() holds), and no
\* array is created, no device operation issued.
C11_EmptyShardsPlaceholder ==
    [][(IsCall("WrapDataShards") /\ call'.args[1] = <<>>) =>
         LET new == handles'[Len(handles')]
         IN /\ call'.outcome = "ok"
            /\ Len(handles') = Len(handles) + 1
            /\ \A i \in 1..Len(handles) : handles'[i] = handles[i]
            /\ call'.ret = <<Len(handles')>>
            /\ new.device = call'.args[2]
            /\ new.shape = call'.args[3]
            /\ new.buffer = NullBuffer
            /\ HasSharding(new)
            /\ new.sharding = call'.args[4]
            /\ UNCHANGED <<nextArray, pending, pc>>]_vars

C11_Witness ==
    /\ call.op = "WrapDataShards"
    /\ call.args[1] = <<>>
    /\ call.outcome = "ok"
    /\ Len(AddressableDevices) = 2
    /\ handles[Len(handles)].buffer = NullBuffer
    /\ HasSharding(handles[Len(handles)])

\* C12: TransferShardsToServer aborts fatally and returns no handle when
\* the number of shards differs from the number of devices the array is
\* assembled over; when it returns, the counts are equal and the result is
\* one sharded handle whose array spans those devices.
RegisteredShards(shards) ==
    \A i \in 1..Len(shards) : shards[i].device \in DOMAIN string_to_device_

C13_ShardedAssignment ==
    [][IsCall("Compile") =>
         \A i \in 1..Len(call'.args) :
            call'.args[i] =>
              LET options == call'.ret[i]
                  da == options.device_assignment
                  N == Len(driver.devices)
              IN /\ options.num_replicas = 1
                 /\ options.num_partitions = N
                 /\ DOMAIN da = {0}
                 /\ DOMAIN da[0] = 0..(N - 1)
                 /\ \A k \in 0..(N - 1) :
                      /\ da[0][k] \in Range(driver.devices)
                      /\ global_ordinals_[da[0][k]] = k
                 /\ \A k, l \in 0..(N - 1) :
                      k # l => da[0][k] # da[0][l]]_vars

C13_Witness ==
    /\ call.op = "Compile"
    /\ call.args = <<TRUE>>
    /\ Len(driver.devices) = 2
    /\ driver.devices[1] > driver.devices[2]
    /\ call.ret[1].device_assignment[0][0] = driver.devices[2]
    /\ call.ret[1].device_assignment[0][1] = driver.devices[1]

\* C14: ExecuteReplicated returns handles only when the executable reports
\* output shardings and as many of them as there are outputs; it then
\* returns one handle per output, in output order, handle i holding output
\* i under the label "SPMD:0" with reported sharding i. Otherwise it
\* aborts fatally and returns no handle.
C14_OutputShardings ==
    [][IsCall("ExecuteReplicated") =>
         LET executable == call'.args[1]
             reported == executable.output_shardings
             n == executable.outputs
         IN IF reported.has_value /\ Len(reported.value) = n
            THEN /\ call'.outcome = "ok"
                 /\ Len(handles') = Len(handles) + n
                 /\ call'.ret = [i \in 1..n |-> Len(handles) + i]
                 /\ \A i \in 1..Len(handles) : handles'[i] = handles[i]
                 /\ \A i \in 1..n :
                      LET h == handles'[call'.ret[i]]
                      IN /\ h.device = <<"S","P","M","D",":","0">>
                         /\ h.buffer.id = nextArray + i - 1
                         /\ HasSharding(h)
                         /\ h.sharding = reported.value[i]
            ELSE /\ call'.outcome = "fatal"
                 /\ call'.ret = <<>>
                 /\ handles' = handles]_vars

C14_Witness ==
    /\ call.op = "ExecuteReplicated"
    /\ call.outcome = "ok"
    /\ Len(call.ret) = 2
    /\ handles[call.ret[1]].sharding = call.args[1].output_shardings.value[1]
    /\ handles[call.ret[2]].sharding = call.args[1].output_shardings.value[2]
    /\ handles[call.ret[1]].sharding # handles[call.ret[2]].sharding
    /\ handles[call.ret[1]].buffer.id < handles[call.ret[2]].buffer.id

\* A TransferFromServer step in which the copy-to-host future of a handle
\* has resolved to an error: the handle was replicated and its copy failed.
CopyFailed ==
    /\ IsCall("TransferFromServer")
    /\ call'.args[2] # 0
    /\ Len(call'.ret[2]) = call'.args[2]

\* A TransferFromServer step that returns: one literal per input handle, in
\* input order, each read from the array replicated for its handle, and no
\* operation producing one of those arrays is still in flight.
ReadbackComplete ==
    LET idx == call'.args[1]
        literals == call'.ret[1]
        replicated == call'.ret[2]
    IN /\ Len(literals) = Len(idx)
       /\ Len(replicated) = Len(idx)
       /\ \A i \in 1..Len(idx) :
            /\ literals[i].shape = handles[idx[i]].shape
            /\ literals[i].from = replicated[i].id
            /\ \A o \in pending' : replicated[i].id \notin o.arrays

\* C15 as stated: a copy-to-host future that resolves to an error is
\* propagated to the caller as an error outcome, not raised as a fatal
\* check; when every copy succeeds the call returns one literal per input
\* handle in input order, after every copy has completed.
C15_CopyErrorPropagated ==
    [][/\ CopyFailed => call'.outcome = "error"
       /\ (IsCall("TransferFromServer") /\ call'.outcome = "ok") =>
            ReadbackComplete]_vars

\* C15 as amended: a copy-to-host future that resolves to an error fails
\* TransferFromServer through a fatal check like the client's other
\* checks, and no literal is returned; the call returns only when no copy
\* failed, and then with one literal per input handle in input order, after
\* every copy has completed.
C15_CopyErrorFatal ==
    [][/\ CopyFailed =>
            /\ call'.outcome = "fatal"
            /\ call'.ret[1] = <<>>
            /\ handles' = handles
       /\ (IsCall("TransferFromServer") /\ call'.outcome = "ok") =>
            /\ call'.args[2] = 0
            /\ ReadbackComplete]_vars

C15_Witness ==
    /\ call.op = "TransferFromServer"
    /\ call.outcome = "fatal"
    /\ Len(call.args[1]) = 2
    /\ call.args[2] = 2
    /\ Len(call.ret[2]) = 2
    /\ call.ret[1] = <<>>

\* C16: Assign on handle h with source s leaves h unchanged when s is h
\* itself; otherwise h's buffer reference becomes s's buffer reference,
\* while h's device label, shape and sharding, and s and every other
\* handle, are unchanged.
C16_AssignFrame ==
    [][IsCall("Assign") =>
         LET h == call'.args[1]
             s == call'.args[2]
         IN /\ call'.outcome = "ok"
            /\ Len(handles') = Len(handles)
            /\ \A i \in 1..Len(handles) : i # h => handles'[i] = handles[i]
            /\ IF s = h THEN handles'[h] = handles[h]
               ELSE /\ handles'[h].buffer = handles[s].buffer
                    /\ handles'[h].device = handles[h].device
                    /\ handles'[h].shape = handles[h].shape
                    /\ handles'[h].sharding = handles[h].sharding
            /\ UNCHANGED <<nextArray, pending>>]_vars

C16_Witness ==
    /\ call.op = "Assign"
    /\ call.args[1] # call.args[2]
    /\ handles[call.args[1]].buffer = handles[call.args[2]].buffer
    /\ handles[call.args[1]].buffer # NullBuffer
    /\ handles[call.args[1]].sharding # handles[call.args[2]].sharding
    /\ handles[call.args[1]].device # handles[call.args[2]].device
====
